---- MODULE Spec2Model ----
(***************************************************************************)
(* Model of backend/interfaces/nomadcluster/client.go: the change          *)
(* classifier (hasUpdate), the apply protocol (UpdateJob, DeleteJob), the  *)
(* cluster state reader (GetCurrentClusterState) and the change event      *)
(* watcher (SubscribeJobChanges).                                          *)
(***************************************************************************)
EXTENDS Integers, Sequences, FiniteSets, TLC

VARIABLES
    hu,         \* one invocation of hasUpdate: arguments, position, result
    jobs,       \* scheduler: job name -> registered job, or NoJob
    namespaces, \* scheduler: the registered namespaces
    deployment, \* scheduler: job name -> latest deployment status, or NoDeployment
    job,        \* the WorkloadSpec object (application.JobInfo) handed to UpdateJob
    last,       \* the last client operation: arguments, scheduler calls, result
    ctxDone,    \* watcher: the context of SubscribeJobChanges is cancelled
    eventCh,    \* watcher: batches buffered on the event channel
    chClosed,   \* watcher: the event feed has closed the channel
    w           \* watcher goroutine: position, batch in hand, callbacks made

vars == <<hu, jobs, namespaces, deployment, job, last, ctxDone, eventCh, chClosed, w>>

huVars == <<hu>>
applyVars == <<jobs, namespaces, deployment, job, last>>
watchVars == <<ctxDone, eventCh, chClosed, w>>

Nil == "<nil>"

(***************************************************************************)
(* Metadata keys (client.go, var block).                                   *)
(***************************************************************************)
metaKeyOps == "nomadops"
metaKeySrcID == "nomadopssrcid"
metaKeySrcUrl == "nomadopssrcurl"
metaKeySrcCommit == "nomadopssrccommit"
metaKeyForceRestart == "nomadopsforcerestart"

\* fmt.Sprintf("Meta[%s]", key)
MetaField(key) == "Meta[" \o key \o "]"

(***************************************************************************)
(* Bounds of the explored inputs.                                          *)
(***************************************************************************)
MaxFields == 2
MaxGroups == 1

SeqUpTo(S, n) == UNION {[1..k -> S] : k \in 0..n}

(***************************************************************************)
(* api.JobPlanResponse / api.JobDiff as far as hasUpdate reads them.       *)
(***************************************************************************)
FieldNames == {MetaField(metaKeySrcCommit), MetaField(metaKeyForceRestart), "Meta[team]"}
FieldDiffs == [Name : FieldNames]
ObjectLists == {<<>>, <<[Name |-> "Constraint"]>>}
SubFieldLists == {<<>>, <<[Name |-> "Count"]>>}
TaskDiffs == [Fields : SubFieldLists, Objects : ObjectLists]
TaskLists == {<<>>} \cup {<<t>> : t \in TaskDiffs}
TaskGroupDiffs == [Fields : SubFieldLists, Objects : ObjectLists, Tasks : TaskLists]
JobDiffs ==
    [Fields : SeqUpTo(FieldDiffs, MaxFields),
     Objects : ObjectLists,
     TaskGroups : SeqUpTo(TaskGroupDiffs, MaxGroups)]
PlanResponses == [Diff : JobDiffs]

RECURSIVE tasksHaveDiff(_, _)
\* inner loop of hasUpdate: for _, task := range taskGrp.Tasks
tasksHaveDiff(tasks, i) ==
    IF i > Len(tasks) THEN FALSE
    ELSE IF Len(tasks[i].Fields) > 0 THEN TRUE
    ELSE IF Len(tasks[i].Objects) > 0 THEN TRUE
    ELSE tasksHaveDiff(tasks, i + 1)

RECURSIVE taskGroupsHaveDiff(_, _)
\* outer loop of hasUpdate: for _, taskGrp := range diffResp.Diff.TaskGroups
taskGroupsHaveDiff(groups, i) ==
    IF i > Len(groups) THEN FALSE
    ELSE IF Len(groups[i].Fields) > 0 THEN TRUE
    ELSE IF Len(groups[i].Objects) > 0 THEN TRUE
    ELSE IF tasksHaveDiff(groups[i].Tasks, 1) THEN TRUE
    ELSE taskGroupsHaveDiff(groups, i + 1)

\* hasUpdate without the restart override in the single-field test
hasUpdate_NoRestart(diffResp, restart, force) ==
    IF Len(diffResp.Diff.Objects) > 0 THEN TRUE
    ELSE LET fieldDiff == diffResp.Diff.Fields IN
         IF Len(fieldDiff) > 0
            /\ (\/ Len(fieldDiff) # 1
                \/ (/\ fieldDiff[1].Name # MetaField(metaKeySrcCommit)
                    /\ fieldDiff[1].Name # MetaField(metaKeyForceRestart))
                \/ force)
         THEN TRUE
         ELSE taskGroupsHaveDiff(diffResp.Diff.TaskGroups, 1)

\* hasUpdate that treats a lone revision stamp as a change
hasUpdate_CommitCounts(diffResp, restart, force) ==
    IF Len(diffResp.Diff.Objects) > 0 THEN TRUE
    ELSE LET fieldDiff == diffResp.Diff.Fields IN
         IF Len(fieldDiff) > 0
            /\ (\/ Len(fieldDiff) # 1
                \/ fieldDiff[1].Name # MetaField(metaKeyForceRestart)
                \/ force \/ restart)
         THEN TRUE
         ELSE taskGroupsHaveDiff(diffResp.Diff.TaskGroups, 1)

\* hasUpdate that ignores the force flag
hasUpdate_NoForce(diffResp, restart, force) ==
    IF Len(diffResp.Diff.Objects) > 0 THEN TRUE
    ELSE LET fieldDiff == diffResp.Diff.Fields IN
         IF Len(fieldDiff) > 0
            /\ (\/ Len(fieldDiff) # 1
                \/ (/\ fieldDiff[1].Name # MetaField(metaKeySrcCommit)
                    /\ fieldDiff[1].Name # MetaField(metaKeyForceRestart))
                \/ restart)
         THEN TRUE
         ELSE taskGroupsHaveDiff(diffResp.Diff.TaskGroups, 1)

\* func hasUpdate(diffResp *api.JobPlanResponse, restart, force bool) bool
hasUpdate(diffResp, restart, force) ==
    IF Len(diffResp.Diff.Objects) > 0 THEN TRUE
    ELSE LET fieldDiff == diffResp.Diff.Fields IN
         IF Len(fieldDiff) > 0
            /\ (\/ Len(fieldDiff) # 1
                \/ (/\ fieldDiff[1].Name # MetaField(metaKeySrcCommit)
                    /\ fieldDiff[1].Name # MetaField(metaKeyForceRestart))
                \/ force \/ restart)
         THEN TRUE
         ELSE taskGroupsHaveDiff(diffResp.Diff.TaskGroups, 1)

(***************************************************************************)
(* Idle values of the parts a specification does not exercise.             *)
(***************************************************************************)
HuIdle == [pc |-> "idle", diffResp |-> Nil, restart |-> FALSE, force |-> FALSE, ret |-> FALSE]

(***************************************************************************)
(* The classifier on its own: every DiffResult and flag combination.       *)
(***************************************************************************)
HuInit ==
    hu \in [pc : {"call"}, diffResp : PlanResponses, restart : BOOLEAN,
            force : BOOLEAN, ret : {FALSE}]

HasUpdateCall ==
    /\ hu.pc = "call"
    /\ hu' = [hu EXCEPT !.pc = "done",
                        !.ret = hasUpdate(hu.diffResp, hu.restart, hu.force)]


(***************************************************************************)
(* Go maps of strings: a function on the keys present.  m[k] of a missing  *)
(* key is the empty string, len(m) the number of keys.                     *)
(***************************************************************************)
EmptyMap == <<>>
MapGet(m, k) == IF k \in DOMAIN m THEN m[k] ELSE ""
MapPut(m, k, v) == [x \in (DOMAIN m) \cup {k} |-> IF x = k THEN v ELSE m[x]]
MapLen(m) == Cardinality(DOMAIN m)

(***************************************************************************)
(* strings.ToLower and strings.Contains.                                   *)
(***************************************************************************)
LowerChar(c) ==
    CASE c = "A" -> "a" [] c = "B" -> "b" [] c = "C" -> "c" [] c = "D" -> "d"
      [] c = "E" -> "e" [] c = "F" -> "f" [] c = "G" -> "g" [] c = "H" -> "h"
      [] c = "I" -> "i" [] c = "J" -> "j" [] c = "K" -> "k" [] c = "L" -> "l"
      [] c = "M" -> "m" [] c = "N" -> "n" [] c = "O" -> "o" [] c = "P" -> "p"
      [] c = "Q" -> "q" [] c = "R" -> "r" [] c = "S" -> "s" [] c = "T" -> "t"
      [] c = "U" -> "u" [] c = "V" -> "v" [] c = "W" -> "w" [] c = "X" -> "x"
      [] c = "Y" -> "y" [] c = "Z" -> "z" [] OTHER -> c

RECURSIVE ToLower(_)
ToLower(s) ==
    IF Len(s) = 0 THEN ""
    ELSE LowerChar(SubSeq(s, 1, 1)) \o ToLower(SubSeq(s, 2, Len(s)))

Contains(s, substr) ==
    \E i \in 1..(Len(s) - Len(substr) + 1) : SubSeq(s, i, i + Len(substr) - 1) = substr

\* the test of UpdateJob on the error of LatestDeployment
\* an error test that compares the text without folding its case
isNotFound_CaseSensitive(errText) == Contains(errText, "not found")

\* strings.Contains(strings.ToLower(err.Error()), "not found")
isNotFound(errText) == Contains(ToLower(errText), "not found")

(***************************************************************************)
(* domain.Source, the WorkloadSpec (application.JobInfo) and the scheduler *)
(***************************************************************************)
MaxTime == 1

WorkloadName == "web"
SourceIDs == {"s1"}
ReaderSourceIDs == {"s1", "s2", ""}
GitCommits == {"abc", "def"}
JobNamespaces == {Nil, "ns1"}
Statuses == {"running"}
NoDeployment == Nil

URLOf(id) == "https://git/" \o id
NamespaceOf(id) == IF id = "s1" THEN "ns1" ELSE ""

Source(id, create, paused, force) ==
    [ID |-> id, URL |-> URLOf(id), Namespace |-> NamespaceOf(id), Region |-> "",
     CreateNamespace |-> create, Paused |-> paused, Force |-> force]

Sources == {Source(id, c, p, f) : id \in SourceIDs, c \in BOOLEAN, p \in BOOLEAN, f \in BOOLEAN}
ReaderSources == {Source(id, FALSE, FALSE, FALSE) : id \in ReaderSourceIDs}

\* Meta of a freshly parsed WorkloadSpec: a nil map or the keys of the job file
NilMeta == [isNil |-> TRUE, m |-> EmptyMap]
SomeMeta(m) == [isNil |-> FALSE, m |-> m]
ParsedMetas == {NilMeta, SomeMeta([k \in {"team"} |-> "a"])}
\* the WorkloadSpec objects that parsing the job files of a Source yields
ParsedJobs == [Meta : ParsedMetas, GitCommit : GitCommits, Namespace : JobNamespaces]

NoJob == [exists |-> FALSE, Meta |-> EmptyMap]
Job(m) == [exists |-> TRUE, Meta |-> m]

\* jobs that other parties register with the scheduler
ForeignMetas ==
    {EmptyMap,
     [k \in {metaKeyOps, metaKeySrcID} |-> IF k = metaKeyOps THEN "true" ELSE "s2"]}

\* the Meta of the jobs a listing of the scheduler can hold
ListedMetas ==
    {EmptyMap,
     [k \in {"team"} |-> "a"],
     [k \in {metaKeySrcID} |-> "s1"],
     [k \in {metaKeyOps, metaKeySrcID} |-> IF k = metaKeyOps THEN "true" ELSE "s1"],
     [k \in {metaKeyOps, metaKeySrcID} |-> IF k = metaKeyOps THEN "true" ELSE "s2"]}

\* the ownership invariant of the data model: marker and matching source id
Owned(meta, id) ==
    /\ metaKeyOps \in DOMAIN meta /\ meta[metaKeyOps] = "true"
    /\ metaKeySrcID \in DOMAIN meta /\ meta[metaKeySrcID] = id

\* func (c *Client) getQueryOptsCtx
getQueryOptsCtx(src) ==
    [Namespace |-> IF src.Namespace # "" THEN src.Namespace ELSE "",
     Region |-> IF src.Region # "" THEN src.Region ELSE ""]

\* func (c *Client) getWriteOptions
getWriteOptions(src) ==
    [Namespace |-> IF src.Namespace # "" THEN src.Namespace ELSE "",
     Region |-> IF src.Region # "" THEN src.Region ELSE ""]

\* time.Now().Format(time.RFC3339Nano)
FormatTime(t) == "2026-01-01T00:00:0" \o ToString(t) \o "Z"


(***************************************************************************)
(* Answers of the scheduler that the client cannot predict.                *)
(***************************************************************************)
NamespaceErrs == {Nil, "permission denied"}
PlanErrs == {"plan failed"}
\* LatestDeployment: the scheduler reports a missing deployment only when there is
\* none; any other failure can occur at any time
NotFoundAnswers == {"job not found", "404 Not Found"}
DeploymentFailures == {"connection refused"}
DeploymentErrs(name) ==
    {Nil} \cup DeploymentFailures
    \cup (IF deployment[name] = NoDeployment THEN NotFoundAnswers ELSE {})
RegisterErrs == {Nil, "register failed"}
DeregisterErrs == {Nil, "deregister failed"}
ListErrs == {Nil, "list failed"}

NoFields == <<>>
OneField(n) == <<[Name |-> n]>>
PlanOf(fields, objects, groups) ==
    [Diff |-> [Fields |-> fields, Objects |-> objects, TaskGroups |-> groups]]
ChangedGroup ==
    [Fields |-> <<>>, Objects |-> <<>>,
     Tasks |-> <<[Fields |-> <<[Name |-> "Count"]>>, Objects |-> <<>>]>>]

\* the DiffResults the scheduler answers a Plan call with
ApplyPlans ==
    {PlanOf(NoFields, <<>>, <<>>),
     PlanOf(OneField(MetaField(metaKeySrcCommit)), <<>>, <<>>),
     PlanOf(OneField(MetaField(metaKeyForceRestart)), <<>>, <<>>),
     PlanOf(OneField("Meta[team]"), <<>>, <<>>),
     PlanOf(NoFields, <<[Name |-> "Constraint"]>>, <<>>),
     PlanOf(NoFields, <<>>, <<ChangedGroup>>)}

(***************************************************************************)
(* Records of an operation: the scheduler calls it issued, and its result. *)
(***************************************************************************)
Call(fn, name, meta, pre, opts, err) ==
    [fn |-> fn, name |-> name, meta |-> meta, pre |-> pre, opts |-> opts, err |-> err]

\* return nil, err
RetErr(e) == [err |-> e, Updated |-> FALSE, Status |-> ""]
\* return &application.UpdateJobInfo{Updated: u, DeploymentStatus: {Status: s}}, nil
RetInfo(u, s) == [err |-> Nil, Updated |-> u, Status |-> s]

NoArgs == [src |-> Nil, restart |-> FALSE]
NoPlan == PlanOf(NoFields, <<>>, <<>>)
LastIdle ==
    [op |-> "none", args |-> NoArgs, planned |-> FALSE, resp |-> NoPlan,
     calls |-> <<>>, ret |-> RetErr(Nil)]


(***************************************************************************)
(* UpdateJob, in the order of its statements.  a: the arguments of the     *)
(* call; calls: the scheduler calls issued so far.                         *)
(***************************************************************************)
UpdateJobReturn(a, planned, resp, calls, ret) ==
    last' = [op |-> "UpdateJob", args |-> a, planned |-> planned, resp |-> resp,
             calls |-> calls, ret |-> ret]

\* the submission step without the test of src.Paused
UpdateJobSubmit_IgnoresPaused(a, calls, meta, resp, status) ==
    \E regErr \in RegisterErrs :
        LET call == Call("Jobs.Register", WorkloadName, meta, jobs[WorkloadName],
                         getWriteOptions(a.src), regErr)
        IN  IF regErr # Nil
            THEN /\ jobs' = jobs
                 /\ UpdateJobReturn(a, TRUE, resp, Append(calls, call), RetErr(regErr))
            ELSE /\ jobs' = [jobs EXCEPT ![WorkloadName] = Job(meta)]
                 /\ UpdateJobReturn(a, TRUE, resp, Append(calls, call), RetInfo(TRUE, status))

\* client.go 277-293: register unless paused, report updated
UpdateJobSubmit(a, calls, meta, resp, status) ==
    IF ~a.src.Paused
    THEN \E regErr \in RegisterErrs :
            LET call == Call("Jobs.Register", WorkloadName, meta, jobs[WorkloadName],
                             getWriteOptions(a.src), regErr)
            IN  IF regErr # Nil
                THEN /\ jobs' = jobs
                     /\ UpdateJobReturn(a, TRUE, resp, Append(calls, call), RetErr(regErr))
                ELSE /\ jobs' = [jobs EXCEPT ![WorkloadName] = Job(meta)]
                     /\ UpdateJobReturn(a, TRUE, resp, Append(calls, call),
                                        RetInfo(TRUE, status))
    ELSE /\ jobs' = jobs
         /\ UpdateJobReturn(a, TRUE, resp, calls, RetInfo(TRUE, status))

\* the classifier step that submits whatever hasUpdate says
UpdateJobClassify_AlwaysSubmits(a, calls, meta, resp, status) ==
    UpdateJobSubmit(a, calls, meta, resp, status)

\* client.go 267-275: the classifier decides whether anything is submitted
UpdateJobClassify(a, calls, meta, resp, status) ==
    IF ~hasUpdate(resp, a.restart, a.src.Force)
    THEN /\ jobs' = jobs
         /\ UpdateJobReturn(a, TRUE, resp, calls, RetInfo(FALSE, status))
    ELSE UpdateJobSubmit(a, calls, meta, resp, status)

\* the status step that reports no status whatever the query found
UpdateJobStatus_ForgetsStatus(a, calls, meta, resp) ==
    \E depErr \in DeploymentErrs(WorkloadName) :
        LET call == Call("Jobs.LatestDeployment", WorkloadName, EmptyMap, jobs[WorkloadName],
                         getQueryOptsCtx(a.src), depErr)
        IN  IF depErr # Nil /\ ~isNotFound(depErr)
            THEN /\ jobs' = jobs
                 /\ UpdateJobReturn(a, TRUE, resp, Append(calls, call), RetErr(depErr))
            ELSE UpdateJobClassify(a, Append(calls, call), meta, resp, "")

\* client.go 253-265: the latest deployment, tolerating "not found"
UpdateJobStatus(a, calls, meta, resp) ==
    \E depErr \in DeploymentErrs(WorkloadName) :
        LET dep == IF depErr = Nil THEN deployment[WorkloadName] ELSE NoDeployment
            call == Call("Jobs.LatestDeployment", WorkloadName, EmptyMap, jobs[WorkloadName],
                         getQueryOptsCtx(a.src), depErr)
        IN  IF depErr # Nil /\ ~isNotFound(depErr)
            THEN /\ jobs' = jobs
                 /\ UpdateJobReturn(a, TRUE, resp, Append(calls, call), RetErr(depErr))
            ELSE LET deploymentStatus == IF dep # NoDeployment THEN dep ELSE ""
                 IN  UpdateJobClassify(a, Append(calls, call), meta, resp, deploymentStatus)

\* client.go 247-251: the dry-run plan of the tagged job
UpdateJobPlan(a, calls, meta) ==
    \/ \E planErr \in PlanErrs :
          /\ jobs' = jobs
          /\ UpdateJobReturn(a, FALSE, NoPlan,
                 Append(calls, Call("Jobs.Plan", WorkloadName, meta, jobs[WorkloadName],
                                    getWriteOptions(a.src), planErr)),
                 RetErr(planErr))
    \/ \E resp \in ApplyPlans :
          UpdateJobStatus(a,
              Append(calls, Call("Jobs.Plan", WorkloadName, meta, jobs[WorkloadName],
                                 getWriteOptions(a.src), Nil)),
              meta, resp)

\* the tagging step that never writes the restart nonce
UpdateJobTag_NoNonce(a, calls, now) ==
    LET metadata0 == IF job.Meta.isNil THEN EmptyMap ELSE job.Meta.m
        metadata1 == MapPut(metadata0, metaKeyOps, "true")
        metadata2 == MapPut(metadata1, metaKeySrcUrl, a.src.URL)
        metadata3 == MapPut(metadata2, metaKeySrcID, a.src.ID)
        metadata == MapPut(metadata3, metaKeySrcCommit, job.GitCommit)
    IN  /\ job' = [job EXCEPT !.Meta = SomeMeta(metadata)]
        /\ UpdateJobPlan(a, calls, metadata)

\* client.go 231-246: the ownership tags, written into the job's own Meta map
UpdateJobTag(a, calls, now) ==
    LET metadata0 == IF job.Meta.isNil THEN EmptyMap ELSE job.Meta.m
        metadata1 == MapPut(metadata0, metaKeyOps, "true")
        metadata2 == MapPut(metadata1, metaKeySrcUrl, a.src.URL)
        metadata3 == MapPut(metadata2, metaKeySrcID, a.src.ID)
        metadata4 == MapPut(metadata3, metaKeySrcCommit, job.GitCommit)
        metadata == IF a.restart
                    THEN MapPut(metadata4, metaKeyForceRestart, FormatTime(now))
                    ELSE metadata4
    IN  /\ job' = [job EXCEPT !.Meta = SomeMeta(metadata)]
        /\ UpdateJobPlan(a, calls, metadata)

\* the namespace step that goes on after a failed namespace registration
UpdateJobNamespace_IgnoresError(a, now) ==
    IF a.src.CreateNamespace
    THEN IF job.Namespace = Nil
         THEN /\ UNCHANGED <<jobs, namespaces, job>>
              /\ UpdateJobReturn(a, FALSE, NoPlan, <<>>,
                     RetErr("require a namespace to be set in conjunction with 'CreateNamespace'"))
         ELSE \E nsErr \in NamespaceErrs :
                LET call == Call("Namespaces.Register", job.Namespace,
                                 [k \in {metaKeyOps} |-> "true"], NoJob,
                                 getWriteOptions(a.src), nsErr)
                IN  /\ namespaces' = IF nsErr = Nil THEN namespaces \cup {job.Namespace}
                                     ELSE namespaces
                    /\ UpdateJobTag(a, <<call>>, now)
    ELSE /\ namespaces' = namespaces
         /\ UpdateJobTag(a, <<>>, now)

\* client.go 215-229: the namespace of a Source with CreateNamespace
UpdateJobNamespace(a, now) ==
    IF a.src.CreateNamespace
    THEN IF job.Namespace = Nil
         THEN /\ UNCHANGED <<jobs, namespaces, job>>
              /\ UpdateJobReturn(a, FALSE, NoPlan, <<>>,
                     RetErr("require a namespace to be set in conjunction with 'CreateNamespace'"))
         ELSE \E nsErr \in NamespaceErrs :
                LET call == Call("Namespaces.Register", job.Namespace,
                                 [k \in {metaKeyOps} |-> "true"], NoJob,
                                 getWriteOptions(a.src), nsErr)
                IN  IF nsErr # Nil
                    THEN /\ UNCHANGED <<jobs, namespaces, job>>
                         /\ UpdateJobReturn(a, FALSE, NoPlan, <<call>>, RetErr(nsErr))
                    ELSE /\ namespaces' = namespaces \cup {job.Namespace}
                         /\ UpdateJobTag(a, <<call>>, now)
    ELSE /\ namespaces' = namespaces
         /\ UpdateJobTag(a, <<>>, now)

\* func (c *Client) UpdateJob(ctx, src, job, restart)
UpdateJob ==
    \E src \in Sources, restart \in BOOLEAN, now \in 1..MaxTime :
        /\ last.op = "none"
        /\ UpdateJobNamespace([src |-> src, restart |-> restart], now)
        /\ UNCHANGED <<deployment, hu, ctxDone, eventCh, chClosed, w>>

\* func (c *Client) DeleteJob(ctx, src, job)
DeleteJob ==
    \E src \in Sources, err \in DeregisterErrs :
        LET a == [src |-> src, restart |-> FALSE]
            call == Call("Jobs.Deregister", WorkloadName, EmptyMap, jobs[WorkloadName],
                         getWriteOptions(src), err)
        IN  /\ last.op = "none"
            /\ jobs' = IF err = Nil THEN [jobs EXCEPT ![WorkloadName] = NoJob] ELSE jobs
            /\ last' = [op |-> "DeleteJob", args |-> a, planned |-> FALSE, resp |-> NoPlan,
                        calls |-> <<call>>, ret |-> RetErr(err)]
            /\ UNCHANGED <<namespaces, deployment, job, hu, ctxDone, eventCh, chClosed, w>>

\* func (c *Client) ParseJob: a fresh WorkloadSpec object
ParseJob ==
    /\ last.op = "none"
    /\ \E j \in ParsedJobs : job' = j
    /\ UNCHANGED <<jobs, namespaces, deployment, last, hu, ctxDone, eventCh, chClosed, w>>

\* the operation has returned and its caller has taken the result
Return ==
    /\ last.op # "none"
    /\ last' = LastIdle
    /\ UNCHANGED <<jobs, namespaces, deployment, job, hu, ctxDone, eventCh, chClosed, w>>

(***************************************************************************)
(* What happens in the scheduler without the client.                       *)
(***************************************************************************)
ExternalRegister ==
    \E n \in DOMAIN jobs, m \in ForeignMetas :
        /\ last.op = "none"
        /\ jobs' = [jobs EXCEPT ![n] = Job(m)]
        /\ UNCHANGED <<namespaces, deployment, job, last, hu, ctxDone, eventCh, chClosed, w>>

DeploymentChange ==
    \E n \in DOMAIN jobs, s \in Statuses :
        /\ last.op = "none"
        /\ jobs[n].exists
        /\ deployment' = [deployment EXCEPT ![n] = s]
        /\ UNCHANGED <<jobs, namespaces, job, last, hu, ctxDone, eventCh, chClosed, w>>


(***************************************************************************)
(* GetCurrentClusterState.                                                 *)
(***************************************************************************)
ReaderNames == {"web", "db", "cache"}
InfoErr == "info failed"

\* return nil, err
StateErr(e) == [err |-> e, hasState |-> FALSE, CurrentJobs |-> EmptyMap]
\* return clusterState, nil
StateOk(cur) == [err |-> Nil, hasState |-> TRUE, CurrentJobs |-> cur]

\* the orders in which Jobs().List can return the registered jobs
Listings(registered) ==
    {l \in [1..Cardinality(registered) -> registered] :
        \A i, j \in DOMAIN l : i # j => l[i] # l[j]}

RECURSIVE readJobs(_, _, _, _, _, _)
\* client.go 324-343: for _, job := range joblist
readJobs(src, joblist, i, failAt, cur, calls) ==
    IF i > Len(joblist) THEN [ret |-> StateOk(cur), calls |-> calls]
    ELSE LET name == joblist[i]
             err == IF i = failAt THEN InfoErr ELSE Nil
             call == Call("Jobs.Info", name, EmptyMap, jobs[name], getQueryOptsCtx(src), err)
             m == jobs[name].Meta
         IN  IF err # Nil THEN [ret |-> StateErr(err), calls |-> Append(calls, call)]
             ELSE IF MapLen(m) = 0
                  THEN readJobs(src, joblist, i + 1, failAt, cur, Append(calls, call))
             ELSE IF MapGet(m, metaKeySrcID) # src.ID
                  THEN readJobs(src, joblist, i + 1, failAt, cur, Append(calls, call))
             ELSE readJobs(src, joblist, i + 1, failAt,
                           MapPut(cur, name, jobs[name]), Append(calls, call))

\* GetCurrentClusterState that answers a failed listing with an empty state
GetCurrentClusterState_SwallowsListError ==
    \E src \in ReaderSources, listErr \in ListErrs :
        LET a == [src |-> src, restart |-> FALSE]
            list == Call("Jobs.List", "", EmptyMap, NoJob, getQueryOptsCtx(src), listErr)
            registered == {n \in DOMAIN jobs : jobs[n].exists}
        IN  /\ last.op = "none"
            /\ IF listErr # Nil
               THEN last' = [op |-> "GetCurrentClusterState", args |-> a, planned |-> FALSE,
                             resp |-> NoPlan, calls |-> <<list>>, ret |-> StateOk(EmptyMap)]
               ELSE \E joblist \in Listings(registered), failAt \in 0..Cardinality(registered) :
                        LET r == readJobs(src, joblist, 1, failAt, EmptyMap, <<list>>)
                        IN  last' = [op |-> "GetCurrentClusterState", args |-> a,
                                     planned |-> FALSE, resp |-> NoPlan,
                                     calls |-> r.calls, ret |-> r.ret]
            /\ UNCHANGED <<jobs, namespaces, deployment, job, hu, ctxDone, eventCh,
                           chClosed, w>>

\* func (c *Client) GetCurrentClusterState(ctx, opts)
GetCurrentClusterState ==
    \E src \in ReaderSources, listErr \in ListErrs :
        LET a == [src |-> src, restart |-> FALSE]
            list == Call("Jobs.List", "", EmptyMap, NoJob, getQueryOptsCtx(src), listErr)
            registered == {n \in DOMAIN jobs : jobs[n].exists}
        IN  /\ last.op = "none"
            /\ IF listErr # Nil
               THEN last' = [op |-> "GetCurrentClusterState", args |-> a, planned |-> FALSE,
                             resp |-> NoPlan, calls |-> <<list>>, ret |-> StateErr(listErr)]
               ELSE \E joblist \in Listings(registered), failAt \in 0..Cardinality(registered) :
                        LET r == readJobs(src, joblist, 1, failAt, EmptyMap, <<list>>)
                        IN  last' = [op |-> "GetCurrentClusterState", args |-> a,
                                     planned |-> FALSE, resp |-> NoPlan,
                                     calls |-> r.calls, ret |-> r.ret]
            /\ UNCHANGED <<jobs, namespaces, deployment, job, hu, ctxDone, eventCh,
                           chClosed, w>>


(***************************************************************************)
(* SubscribeJobChanges: the event feed, the watcher goroutine and the      *)
(* event handler.                                                          *)
(***************************************************************************)
MaxBatchLen == 2
ChanCap == 1

Event(type, decodes, name) == [Type |-> type, decodes |-> decodes, name |-> name]
Events ==
    {Event("JobRegistered", TRUE, "a"),
     Event("JobDeregistered", TRUE, "b"),
     Event("DeploymentStatusUpdate", TRUE, "c"),
     Event("JobRegistered", FALSE, ""),
     Event("DeploymentStatusUpdate", FALSE, ""),
     Event("NodeRegistration", TRUE, "")}

\* api.Events: a heartbeat, the report of a stream error, or a batch of events
Heartbeat == [Index |-> 0, Events |-> <<>>, Err |-> FALSE]
ErrBatch == [Index |-> 0, Events |-> <<>>, Err |-> TRUE]
Batches ==
    {Heartbeat, ErrBatch}
    \cup {[Index |-> 1, Events |-> es, Err |-> FALSE] : es \in SeqUpTo(Events, MaxBatchLen)}

\* func (e *Events) IsHeartbeat() bool
IsHeartbeat(events) == events.Index = 0 /\ Len(events.Events) = 0

WIdle == [pc |-> "idle", events |-> Heartbeat, i |-> 0, called |-> <<>>, handled |-> FALSE]
WStart == [pc |-> "select", events |-> Heartbeat, i |-> 0, called |-> <<>>, handled |-> FALSE]

\* the caller cancels the context
Cancel ==
    /\ ~ctxDone
    /\ w.pc # "idle"
    /\ ctxDone' = TRUE
    /\ UNCHANGED <<eventCh, chClosed, w, hu, jobs, namespaces, deployment, job, last>>

\* the event stream delivers a batch
FeedSend ==
    \E b \in Batches :
        /\ w.pc # "idle"
        /\ ~chClosed
        /\ Len(eventCh) < ChanCap
        /\ eventCh' = Append(eventCh, b)
        /\ UNCHANGED <<ctxDone, chClosed, w, hu, jobs, namespaces, deployment, job, last>>

\* the event stream ends and closes its channel
FeedClose ==
    /\ w.pc # "idle"
    /\ ~chClosed
    /\ chClosed' = TRUE
    /\ UNCHANGED <<ctxDone, eventCh, w, hu, jobs, namespaces, deployment, job, last>>

\* a select that never takes the case of ctx.Done()
SelectDone_NeverTaken ==
    /\ w.pc = "select"
    /\ ctxDone
    /\ w' = w
    /\ UNCHANGED <<ctxDone, eventCh, chClosed, hu, jobs, namespaces, deployment, job, last>>

\* client.go 112-113: case <-ctx.Done(): return
SelectDone ==
    /\ w.pc = "select"
    /\ ctxDone
    /\ w' = [w EXCEPT !.pc = "done"]
    /\ UNCHANGED <<ctxDone, eventCh, chClosed, hu, jobs, namespaces, deployment, job, last>>

\* client.go 115-121: case events := <-eventCh, a batch is buffered
SelectEvents ==
    /\ w.pc = "select"
    /\ Len(eventCh) > 0
    /\ LET events == Head(eventCh)
       IN  /\ eventCh' = Tail(eventCh)
           /\ IF IsHeartbeat(events)
              THEN w' = w
              ELSE IF Len(events.Events) = 0
              THEN w' = [pc |-> "select", events |-> events, i |-> 1, called |-> <<>>,
                         handled |-> TRUE]
              ELSE w' = [pc |-> "handle", events |-> events, i |-> 1, called |-> <<>>,
                         handled |-> FALSE]
    /\ UNCHANGED <<ctxDone, chClosed, hu, jobs, namespaces, deployment, job, last>>

\* client.go 115-117: the receive from a closed channel yields a nil *api.Events,
\* and events.IsHeartbeat() dereferences it
SelectClosed ==
    /\ w.pc = "select"
    /\ Len(eventCh) = 0
    /\ chClosed
    /\ w' = [w EXCEPT !.pc = "panic"]
    /\ UNCHANGED <<ctxDone, eventCh, chClosed, hu, jobs, namespaces, deployment, job, last>>

\* the callback cb(jobName), with the state of the context when it is invoked
Callback(name) == Append(w.called, [name |-> name, cancelled |-> ctxDone])

\* one turn of the loop of eventHandler over event.Events
NextEvent(called) ==
    IF w.i < Len(w.events.Events)
    THEN [w EXCEPT !.i = w.i + 1, !.called = called]
    ELSE [w EXCEPT !.pc = "select", !.i = w.i + 1, !.called = called, !.handled = TRUE]

\* return from eventHandler in the middle of the batch
HandlerReturn == [w EXCEPT !.pc = "select", !.handled = TRUE]

\* eventHandler without the DeploymentStatusUpdate case
HandleEvent_SkipsDeployments ==
    /\ w.pc = "handle"
    /\ LET e == w.events.Events[w.i]
       IN  IF e.Type \in {"JobRegistered", "JobDeregistered"}
           THEN IF ~e.decodes THEN w' = HandlerReturn
                ELSE w' = NextEvent(Callback(e.name))
           ELSE w' = NextEvent(w.called)
    /\ UNCHANGED <<ctxDone, eventCh, chClosed, hu, jobs, namespaces, deployment, job, last>>

\* client.go 84-107: eventHandler, one event of the batch per step
HandleEvent ==
    /\ w.pc = "handle"
    /\ LET e == w.events.Events[w.i]
       IN  IF e.Type \in {"JobRegistered", "JobDeregistered"}
           THEN IF ~e.decodes THEN w' = HandlerReturn
                ELSE w' = NextEvent(Callback(e.name))
           ELSE IF e.Type = "DeploymentStatusUpdate"
           THEN IF ~e.decodes THEN w' = HandlerReturn
                ELSE w' = NextEvent(Callback(e.name))
           ELSE w' = NextEvent(w.called)
    /\ UNCHANGED <<ctxDone, eventCh, chClosed, hu, jobs, namespaces, deployment, job, last>>

(***************************************************************************)
(* Specifications.                                                         *)
(***************************************************************************)
ApplyIdle ==
    /\ jobs = [n \in {WorkloadName} |-> NoJob]
    /\ namespaces = {}
    /\ deployment = [n \in {WorkloadName} |-> NoDeployment]
    /\ job = [Meta |-> NilMeta, GitCommit |-> "abc", Namespace |-> Nil]
    /\ last = LastIdle

WatchIdle ==
    /\ ctxDone = FALSE
    /\ eventCh = <<>>
    /\ chClosed = FALSE
    /\ w = WIdle

\* the apply protocol against a scheduler that others use as well
Init ==
    /\ hu = HuIdle
    /\ WatchIdle
    /\ jobs = [n \in {WorkloadName} |-> NoJob]
    /\ namespaces = {}
    /\ deployment = [n \in {WorkloadName} |-> NoDeployment]
    /\ job \in ParsedJobs
    /\ last = LastIdle

Next ==
    \/ UpdateJob
    \/ DeleteJob
    \/ ParseJob
    \/ Return
    \/ ExternalRegister
    \/ DeploymentChange

Spec == Init /\ [][Next]_vars

\* the classifier over every DiffResult and flag combination
InitClassifier ==
    /\ HuInit
    /\ ApplyIdle
    /\ WatchIdle

NextClassifier ==
    /\ HasUpdateCall
    /\ UNCHANGED <<jobs, namespaces, deployment, job, last, ctxDone, eventCh, chClosed, w>>

SpecClassifier == InitClassifier /\ [][NextClassifier]_vars

\* the reader over every listing of the scheduler
InitReader ==
    /\ hu = HuIdle
    /\ WatchIdle
    /\ jobs \in [ReaderNames -> {NoJob} \cup {Job(m) : m \in ListedMetas}]
    /\ namespaces = {}
    /\ deployment = [n \in ReaderNames |-> NoDeployment]
    /\ job = [Meta |-> NilMeta, GitCommit |-> "abc", Namespace |-> Nil]
    /\ last = LastIdle

NextReader ==
    \/ GetCurrentClusterState
    \/ Return

SpecReader == InitReader /\ [][NextReader]_vars

\* one subscription: the feed, the cancellation and the watcher goroutine
InitWatcher ==
    /\ hu = HuIdle
    /\ ApplyIdle
    /\ ctxDone = FALSE
    /\ eventCh = <<>>
    /\ chClosed = FALSE
    /\ w = WStart

NextWatcher ==
    \/ Cancel
    \/ FeedSend
    \/ FeedClose
    \/ SelectDone
    \/ SelectEvents
    \/ SelectClosed
    \/ HandleEvent

SpecWatcher == InitWatcher /\ [][NextWatcher]_vars

\* the subscription under a fair scheduler: a callback in progress returns (the
\* handler takes its next step), and the case of ctx.Done() of the select, chosen
\* at random among the ready cases, is not passed over forever when it is ready
\* again and again
SpecWatcherFair ==
    /\ InitWatcher
    /\ [][NextWatcher]_vars
    /\ WF_vars(HandleEvent)
    /\ SF_vars(SelectDone)


(***************************************************************************)
(* Properties.  Helpers that read the record of the last operation.        *)
(***************************************************************************)
CallsOf(fn) == {i \in DOMAIN last.calls : last.calls[i].fn = fn}
IsUpdateJob == last.op = "UpdateJob"
Classified == IsUpdateJob /\ last.planned /\ CallsOf("Jobs.LatestDeployment") # {}
StatusCall == last.calls[CHOOSE i \in CallsOf("Jobs.LatestDeployment") : TRUE]
\* the deployment status of the workload in the scheduler, "" when there is none
StatusInScheduler ==
    IF deployment[WorkloadName] # NoDeployment THEN deployment[WorkloadName] ELSE ""
NoiseFields == {"Meta[nomadopssrccommit]", "Meta[nomadopsforcerestart]"}
SubgroupChanged(d) ==
    \E g \in DOMAIN d.TaskGroups :
        \/ d.TaskGroups[g].Fields # <<>>
        \/ d.TaskGroups[g].Objects # <<>>
        \/ \E t \in DOMAIN d.TaskGroups[g].Tasks :
              \/ d.TaskGroups[g].Tasks[t].Fields # <<>>
              \/ d.TaskGroups[g].Tasks[t].Objects # <<>>

\* C1: hasUpdate returns true exactly when the top-level object list is non-empty,
\* or the top-level field list is non-empty and (has more than one entry, or its
\* single entry is neither the revision stamp nor the restart nonce, or restart, or
\* force), or some task group or task has a non-empty field or object list; two or
\* more top-level field changes always yield true.
C1_HasUpdateCharacterisation ==
    hu.pc = "done" =>
        LET d == hu.diffResp.Diff
            objects == d.Objects # <<>>
            fields == /\ d.Fields # <<>>
                      /\ \/ Len(d.Fields) > 1
                         \/ d.Fields[1].Name \notin NoiseFields
                         \/ hu.restart
                         \/ hu.force
        IN  /\ hu.ret <=> (objects \/ fields \/ SubgroupChanged(d))
            /\ Len(d.Fields) >= 2 => hu.ret

\* C1 witness: two noise-only field changes without any flag count as an update
C1_Witness ==
    /\ hu.pc = "done"
    /\ hu.diffResp.Diff.Objects = <<>>
    /\ hu.diffResp.Diff.TaskGroups = <<>>
    /\ Len(hu.diffResp.Diff.Fields) = 2
    /\ \A i \in 1..2 : hu.diffResp.Diff.Fields[i].Name \in NoiseFields
    /\ ~hu.restart /\ ~hu.force
    /\ hu.ret

\* C2: no Register or Deregister call is ever issued for a job that exists in the
\* scheduler without the ownership marker and the calling Source's identifier.
C2_NeverTouchesUnownedJob ==
    \A i \in DOMAIN last.calls :
        last.calls[i].fn \in {"Jobs.Register", "Jobs.Deregister"} =>
            (last.calls[i].pre.exists => Owned(last.calls[i].pre.Meta, last.args.src.ID))

\* C3: every workload GetCurrentClusterState returns carries the ownership marker
\* and the identifier of the Source.
C3_ReaderReturnsOnlyOwned ==
    (last.op = "GetCurrentClusterState" /\ last.ret.hasState) =>
        \A n \in DOMAIN last.ret.CurrentJobs :
            Owned(last.ret.CurrentJobs[n].Meta, last.args.src.ID)

\* C4 as stated: with Source.force the classifier always says update required and
\* UpdateJob reports updated=true, even for a DiffResult without any entry.
C4_ForceAlwaysUpdates ==
    (Classified /\ last.args.src.Force /\ last.ret.err = Nil) =>
        /\ hasUpdate(last.resp, last.args.restart, TRUE)
        /\ last.ret.Updated

\* C4 amended: with Source.force, a DiffResult with at least one top-level field,
\* object or subgroup entry is update-required and UpdateJob, when it returns
\* without error, reports updated=true; a DiffResult without any entry is not
\* update-required and UpdateJob reports updated=false.
C4_ForceUpdatesNonEmptyDiff ==
    (Classified /\ last.args.src.Force /\ last.ret.err = Nil) =>
        LET d == last.resp.Diff
            nonEmpty == d.Fields # <<>> \/ d.Objects # <<>> \/ SubgroupChanged(d)
        IN  /\ hasUpdate(last.resp, last.args.restart, TRUE) <=> nonEmpty
            /\ last.ret.Updated <=> nonEmpty

\* C4 witness: force turns a lone revision stamp into an update
C4_Witness ==
    /\ Classified /\ last.args.src.Force /\ ~last.args.restart
    /\ last.resp = PlanOf(<<[Name |-> "Meta[nomadopssrccommit]"]>>, <<>>, <<>>)
    /\ last.ret.err = Nil /\ last.ret.Updated

\* C5: a plan whose only change is the revision stamp, without restart and force,
\* is not update-required; UpdateJob issues no Register call and, returning,
\* reports updated=false with the status its query found, paused or not.
C5_NoiseSuppression ==
    (Classified /\ ~last.args.restart /\ ~last.args.src.Force
       /\ last.resp = PlanOf(<<[Name |-> "Meta[nomadopssrccommit]"]>>, <<>>, <<>>)) =>
        /\ ~hasUpdate(last.resp, FALSE, FALSE)
        /\ CallsOf("Jobs.Register") = {}
        /\ last.ret.err = Nil =>
              /\ ~last.ret.Updated
              /\ last.ret.Status = (IF StatusCall.err = Nil THEN StatusInScheduler ELSE "")

\* C5 witness: a paused Source, a new commit only, the status of the running deployment
C5_Witness ==
    /\ Classified /\ ~last.args.restart /\ ~last.args.src.Force /\ last.args.src.Paused
    /\ last.resp = PlanOf(<<[Name |-> "Meta[nomadopssrccommit]"]>>, <<>>, <<>>)
    /\ jobs[WorkloadName].exists
    /\ last.ret.err = Nil /\ ~last.ret.Updated /\ last.ret.Status = "running"

\* C6: a plan whose only top-level field change is the revision stamp or the
\* restart nonce is update-required when restart or force is set; with restart and
\* a Source that is not paused, UpdateJob reports updated=true after exactly one
\* Register call whose metadata has the restart-nonce key.
C6_OverrideCompleteness ==
    (Classified /\ Len(last.resp.Diff.Fields) = 1
       /\ last.resp.Diff.Fields[1].Name \in NoiseFields) =>
        /\ (last.args.restart \/ last.args.src.Force) =>
              hasUpdate(last.resp, last.args.restart, last.args.src.Force)
        /\ (last.args.restart /\ ~last.args.src.Paused /\ last.ret.err = Nil) =>
              /\ last.ret.Updated
              /\ Cardinality(CallsOf("Jobs.Register")) = 1
              /\ \A i \in CallsOf("Jobs.Register") :
                    "nomadopsforcerestart" \in DOMAIN last.calls[i].meta

\* C6 witness: restart on a job whose plan shows only the new commit
C6_Witness ==
    /\ Classified /\ last.args.restart /\ ~last.args.src.Force /\ ~last.args.src.Paused
    /\ last.resp = PlanOf(<<[Name |-> "Meta[nomadopssrccommit]"]>>, <<>>, <<>>)
    /\ last.ret.err = Nil /\ last.ret.Updated
    /\ "nomadopsforcerestart" \in DOMAIN jobs[WorkloadName].Meta

\* C7: with a paused Source and an update-required plan, UpdateJob issues the Plan
\* call and no job Register call and reports updated=true with the deployment
\* status that existed before the call.
C7_PausedDryRun ==
    (Classified /\ last.args.src.Paused /\ last.ret.err = Nil
       /\ hasUpdate(last.resp, last.args.restart, last.args.src.Force)) =>
        /\ Cardinality(CallsOf("Jobs.Plan")) = 1
        /\ CallsOf("Jobs.Register") = {}
        /\ last.ret.Updated
        /\ last.ret.Status = StatusInScheduler

\* C7 witness: a paused dry run over a changed job with a running deployment
C7_Witness ==
    /\ Classified /\ last.args.src.Paused
    /\ last.resp.Diff.Objects # <<>>
    /\ deployment[WorkloadName] = "running"
    /\ last.ret.err = Nil /\ last.ret.Updated /\ last.ret.Status = "running"

\* C8: a latest-deployment error whose text contains "not found" in any letter
\* case does not fail UpdateJob: the classifier and the submission follow and the
\* status reported is empty; any other error of the query is returned.
C8_NotFoundTolerance ==
    Classified =>
        LET e == StatusCall.err
            s == CHOOSE i \in CallsOf("Jobs.LatestDeployment") : TRUE
            required == hasUpdate(last.resp, last.args.restart, last.args.src.Force)
        IN  /\ e \in {"job not found", "404 Not Found"} =>
                /\ last.ret.err # e
                /\ last.ret.err = Nil =>
                      (last.ret.Status = "" /\ last.ret.Updated = required)
                /\ (required /\ ~last.args.src.Paused) =>
                      (s < Len(last.calls) /\ last.calls[s + 1].fn = "Jobs.Register")
            /\ e = "connection refused" =>
                (last.ret.err = e /\ s = Len(last.calls))

\* C8 witness: the query answers "404 Not Found" and the job is registered anyway
C8_Witness ==
    /\ Classified
    /\ StatusCall.err = "404 Not Found"
    /\ CallsOf("Jobs.Register") # {}
    /\ last.ret.err = Nil /\ last.ret.Updated /\ last.ret.Status = ""

\* C9: no callback is invoked once the context is cancelled.
C9_NoCallbackAfterCancel ==
    \A i \in DOMAIN w.called : ~w.called[i].cancelled

\* the names eventHandler owes a callback for: the job and deployment events of the
\* batch that decode, in order
Decodable(e) ==
    /\ e.Type \in {"JobRegistered", "JobDeregistered", "DeploymentStatusUpdate"}
    /\ e.decodes
OwedNames(es) ==
    LET sel == SelectSeq(es, Decodable) IN [i \in DOMAIN sel |-> sel[i].name]
CalledNames == [i \in DOMAIN w.called |-> w.called[i].name]

\* C10: an undecodable event is skipped alone: once a batch is handled the callback
\* has been invoked for every decodable job or deployment event of the batch.
C10_DecodeFailureSkipsOneEvent ==
    w.handled => CalledNames = OwedNames(w.events.Events)

\* the names the callback is owed for a sequence of events whose payloads decode:
\* the job of every job event and the owning job of every deployment event
JobOrDeploymentEvent(e) ==
    e.Type \in {"JobRegistered", "JobDeregistered", "DeploymentStatusUpdate"}
MappedNames(es) ==
    LET sel == SelectSeq(es, JobOrDeploymentEvent) IN [i \in DOMAIN sel |-> sel[i].name]
AllDecode(es) == \A i \in DOMAIN es : es[i].decodes
\* the events of the batch in hand that eventHandler is through with
EventsDone ==
    IF w.handled THEN w.events.Events ELSE SubSeq(w.events.Events, 1, w.i - 1)
C11_Step ==
    /\ (~ctxDone' /\ AllDecode(w'.events.Events)) => CalledNames' = MappedNames(EventsDone')
    /\ (Len(eventCh) > 0 /\ eventCh' = Tail(eventCh)) =>
          /\ Len(Head(eventCh).Events) = 0 => w'.called \in {w.called, <<>>}
          /\ Len(Head(eventCh).Events) > 0 =>
                (w'.events = Head(eventCh) /\ w'.called = <<>> /\ w'.i = 1)
    /\ w'.called \notin {w.called, <<>>} =>
          /\ Len(w'.called) = Len(w.called) + 1
          /\ SubSeq(w'.called, 1, Len(w.called)) = w.called
          /\ JobOrDeploymentEvent(w.events.Events[w.i])
          /\ w'.called[Len(w'.called)].name = w.events.Events[w.i].name
          /\ w'.events = w.events

IsGetCurrentClusterState == last.op = "GetCurrentClusterState"
Registered == {n \in DOMAIN jobs : jobs[n].exists}

\* C12: GetCurrentClusterState returns a ClusterState or an error, never both and
\* never a part of the state: a failed List or Info call is the last call made, its
\* error is the error returned, and no state comes with it however many workloads
\* were fetched before; a state is returned only after every listed job was fetched.
C12_StateOrError ==
    IsGetCurrentClusterState =>
        /\ (last.ret.err # Nil) <=> ~last.ret.hasState
        /\ \A i \in DOMAIN last.calls :
              last.calls[i].err # Nil =>
                  /\ i = Len(last.calls)
                  /\ last.ret.err = last.calls[i].err
                  /\ ~last.ret.hasState
                  /\ last.ret.CurrentJobs = EmptyMap
        /\ last.ret.hasState =>
              /\ \A i \in DOMAIN last.calls : last.calls[i].err = Nil
              /\ {last.calls[i].name : i \in CallsOf("Jobs.Info")} = Registered

\* C12 witness: the third fetch fails after two jobs of the Source were fetched
C12_Witness ==
    /\ IsGetCurrentClusterState
    /\ Len(last.calls) = 4
    /\ last.calls[4].err = InfoErr
    /\ Owned(last.calls[2].pre.Meta, last.args.src.ID)
    /\ Owned(last.calls[3].pre.Meta, last.args.src.ID)
    /\ last.ret = StateErr(InfoErr)

NamespaceRequired == "require a namespace to be set in conjunction with 'CreateNamespace'"

\* C13: with CreateNamespace and a job without namespace UpdateJob fails with the
\* configuration error and has issued no scheduler call; with CreateNamespace and a
\* failed namespace registration UpdateJob returns that error and the registration
\* is the only call it issued (no Plan, no LatestDeployment, no job Register).
C13_NamespaceFailuresAbort ==
    (IsUpdateJob /\ last.args.src.CreateNamespace) =>
        /\ job.Namespace = Nil =>
              (last.ret.err = NamespaceRequired /\ last.calls = <<>>)
        /\ job.Namespace # Nil =>
              /\ Len(last.calls) >= 1
              /\ last.calls[1].fn = "Namespaces.Register"
              /\ last.calls[1].name = job.Namespace
              /\ last.calls[1].err # Nil =>
                    (last.ret.err = last.calls[1].err /\ Len(last.calls) = 1)

\* C13 witness: the namespace registration is refused and UpdateJob stops there
C13_Witness ==
    /\ IsUpdateJob /\ last.args.src.CreateNamespace
    /\ job.Namespace = "ns1"
    /\ Len(last.calls) = 1
    /\ last.calls[1].fn = "Namespaces.Register"
    /\ last.calls[1].err = "permission denied"
    /\ last.ret = RetErr("permission denied")

\* C14: every outcome UpdateJob returns, updated or not, carries the status that the
\* latest-deployment query of the same call obtained (empty when the query found no
\* deployment); that query is issued exactly once, right after the Plan call and
\* before any job Register call.
C14_StatusFromQueryBeforeSubmit ==
    (IsUpdateJob /\ last.ret.err = Nil) =>
        /\ Cardinality(CallsOf("Jobs.LatestDeployment")) = 1
        /\ Cardinality(CallsOf("Jobs.Plan")) = 1
        /\ \A p \in CallsOf("Jobs.Plan"), s \in CallsOf("Jobs.LatestDeployment") :
              /\ s = p + 1
              /\ \A r \in CallsOf("Jobs.Register") : s < r
        /\ last.ret.Status = (IF StatusCall.err = Nil THEN StatusInScheduler ELSE "")

\* C14 witness: the job is registered and the outcome carries the status "running"
\* that the query before the registration found
C14_Witness ==
    /\ IsUpdateJob /\ last.ret.err = Nil /\ last.ret.Updated
    /\ CallsOf("Jobs.Register") # {}
    /\ StatusCall.err = Nil
    /\ deployment[WorkloadName] = "running"
    /\ last.ret.Status = "running"

\* C15: as long as the context is not cancelled the watcher loop is running, at its
\* select or inside eventHandler, whatever the feed delivered and also after the
\* feed closed its channel; it neither crashes nor exits on its own.
C15_RunsUntilCancelled ==
    ~ctxDone => w.pc \in {"select", "handle"}

\* C16: the metadata of every Plan and Register call of UpdateJob has
\* nomadops=true, the ID and URL of the Source and the commit of the job, and it
\* has a restart nonce only if the restart flag of that call is true, also when
\* earlier calls were made with the same job object.
C16_TagsOfThisCallOnly ==
    IsUpdateJob =>
        \A i \in CallsOf("Jobs.Plan") \cup CallsOf("Jobs.Register") :
            LET m == last.calls[i].meta
            IN  /\ MapGet(m, metaKeyOps) = "true"
                /\ MapGet(m, metaKeySrcID) = last.args.src.ID
                /\ MapGet(m, metaKeySrcUrl) = last.args.src.URL
                /\ MapGet(m, metaKeySrcCommit) = job.GitCommit
                /\ metaKeyForceRestart \in DOMAIN m => last.args.restart

\* C17: a paused UpdateJob writes nothing to the scheduler: it issues neither a job
\* Register nor a namespace Register call, only the Plan and the status query.
C17_PausedWritesNothing ==
    (IsUpdateJob /\ last.args.src.Paused) =>
        \A i \in DOMAIN last.calls :
            last.calls[i].fn \in {"Jobs.Plan", "Jobs.LatestDeployment"}

\* the place of a scheduler call in the order of the statements of UpdateJob
CallRank(fn) ==
    CASE fn = "Namespaces.Register" -> 1
      [] fn = "Jobs.Plan" -> 2
      [] fn = "Jobs.LatestDeployment" -> 3
      [] fn = "Jobs.Register" -> 4
      [] OTHER -> 0

\* C18: UpdateJob retries nothing and stops at the first failure: it issues at most
\* one namespace Register, one Plan, one LatestDeployment and one job Register, in
\* that order; a failed Plan, or a status query failed with anything but a "not
\* found", is the last call and its error is returned, with no job Register; a job
\* Register is issued only after a successful Plan whose DiffResult the classifier
\* judged update-required.
C18_NoRetryFirstFailureAborts ==
    IsUpdateJob =>
        /\ \A i \in DOMAIN last.calls : CallRank(last.calls[i].fn) > 0
        /\ \A i, j \in DOMAIN last.calls :
              i < j => CallRank(last.calls[i].fn) < CallRank(last.calls[j].fn)
        /\ \A i \in DOMAIN last.calls :
              (last.calls[i].err # Nil
                 /\ ~(last.calls[i].fn = "Jobs.LatestDeployment"
                        /\ isNotFound(last.calls[i].err))) =>
                  (i = Len(last.calls) /\ last.ret.err = last.calls[i].err)
        /\ CallsOf("Jobs.Register") # {} =>
              /\ last.planned
              /\ \E p \in CallsOf("Jobs.Plan") : last.calls[p].err = Nil
              /\ hasUpdate(last.resp, last.args.restart, last.args.src.Force)

\* C18 witness: the status query fails with "connection refused" after a plan that
\* asks for an update, and UpdateJob returns that error without a job Register
C18_Witness ==
    /\ Classified
    /\ hasUpdate(last.resp, last.args.restart, last.args.src.Force)
    /\ ~last.args.src.Paused
    /\ StatusCall.err = "connection refused"
    /\ last.ret = RetErr("connection refused")
    /\ CallsOf("Jobs.Register") = {}

\* C19: when no scheduler call fails, the ClusterState GetCurrentClusterState
\* returns is exactly the set of workloads owned by the Source: every registered job
\* whose metadata has the ownership marker and the Source's identifier is in it
\* under its name with its fetched definition, and nothing else is.
C19_ExactlyTheOwnedWorkloads ==
    (IsGetCurrentClusterState /\ last.ret.hasState) =>
        /\ DOMAIN last.ret.CurrentJobs =
              {n \in Registered : Owned(jobs[n].Meta, last.args.src.ID)}
        /\ \A n \in DOMAIN last.ret.CurrentJobs : last.ret.CurrentJobs[n] = jobs[n]

====
